---- MODULE Spec2Model ----
(***************************************************************************)
(* Model of src/fixing_app.py, the PBOC fixing predictor.                  *)
(*                                                                         *)
(* The Streamlit script is re-executed top to bottom on every widget       *)
(* change; one action of the model is one such execution.  The state is    *)
(* the widget values, the st.cache_data entry of get_market_data, the      *)
(* module-level WEIGHTS table and everything the script computes and       *)
(* renders in that execution.                                              *)
(*                                                                         *)
(* Numbers.  A Python float is modelled as a pair <<n, d>>: the rational   *)
(* n/d in lowest terms with d > 0, or NaN when d = 0.  Arithmetic is       *)
(* exact and propagates NaN as IEEE-754 does; every comparison with NaN    *)
(* is false.  The rounding error of binary64 (about 1e-15 at the           *)
(* magnitudes used here) is not modelled: equalities of the model are the  *)
(* equalities the specification states "within floating-point tolerance".  *)
(***************************************************************************)
EXTENDS Integers, Sequences, FiniteSets, TLC

VARIABLES
    WEIGHTS,            \* the module-level weight table
    cache,              \* the st.cache_data entry of get_market_data
    prev_close,         \* number_input "Prev Day Official Close (4:30 PM)"
    prev_fix,           \* number_input "Prev Day Fixing"
    ccf_input,          \* slider "Counter-Cyclical Factor (CCF) (Pips)"
    market_data,        \* market_data of the last execution
    feed_error,         \* st.error("Data Feed Error: ...") is on the page
    basket_metrics,     \* the pairs that have an st.metric tile on the page
    neutral_warning,    \* st.warning("Market data unavailable. ...") is on the page
    gap_pips,
    basket_pips,
    ccf_pips,
    total_change_pips,
    predicted_fix,
    theoretical_text,   \* the text under "Theoretical Fix (No CCF)"
    prediction_text,    \* the text under "FINAL PREDICTION (With CCF)"
    chart_data,         \* the 'Pips' column of the component breakdown
    volatility_alert,   \* the High Volatility Alert is on the page
    earlier             \* history: inputs and results of one earlier execution

----------------------------------------------------------------------------
(* Float arithmetic *)

RECURSIVE GCD(_, _)
GCD(a, b) == IF b = 0 THEN a ELSE GCD(b, a % b)

AbsInt(a) == IF a < 0 THEN -a ELSE a

NaN == <<0, 0>>

IsNaN(x) == x[2] = 0

\* n/d in lowest terms, d > 0
R(n, d) ==
    LET s == IF d < 0 THEN -1 ELSE 1
        g == GCD(AbsInt(n), AbsInt(d))
    IN  <<(s * n) \div g, (s * d) \div g>>

FromInt(n) == <<n, 1>>

FAdd(x, y) ==
    IF IsNaN(x) \/ IsNaN(y) THEN NaN
    ELSE LET g == GCD(x[2], y[2])
             l == (x[2] \div g) * y[2]
         IN  R(x[1] * (l \div x[2]) + y[1] * (l \div y[2]), l)

FNeg(x) == IF IsNaN(x) THEN NaN ELSE <<-x[1], x[2]>>

FSub(x, y) == FAdd(x, FNeg(y))

FMul(x, y) ==
    IF IsNaN(x) \/ IsNaN(y) THEN NaN
    ELSE LET g1 == GCD(AbsInt(x[1]), y[2])
             g2 == GCD(AbsInt(y[1]), x[2])
         IN  R((x[1] \div g1) * (y[1] \div g2), (x[2] \div g2) * (y[2] \div g1))

\* the divisor is never zero in this program (closes and 1 - WEIGHTS['USD'])
FDiv(x, y) ==
    IF IsNaN(x) \/ IsNaN(y) THEN NaN
    ELSE FMul(x, R(y[2], y[1]))

FAbs(x) == IF IsNaN(x) THEN NaN ELSE <<AbsInt(x[1]), x[2]>>

\* x > y; false when either side is NaN
FGt(x, y) ==
    LET z == FSub(x, y) IN ~IsNaN(z) /\ z[1] > 0

\* x == y as Python evaluates it; false when either side is NaN
FEq(x, y) == ~IsNaN(x) /\ ~IsNaN(y) /\ x = y

TenThousand == FromInt(10000)

\* f"{x:.4f}": the decimal string with four places, as <<"num", k>> for the
\* string that spells k/10000 (round half to even), or <<"nan", 0>> for "nan"
Format4(x) ==
    IF IsNaN(x) THEN <<"nan", 0>>
    ELSE LET s  == FMul(x, TenThousand)
             fl == s[1] \div s[2]
             r2 == 2 * (s[1] - fl * s[2])
         IN  IF r2 < s[2] THEN <<"num", fl>>
             ELSE IF r2 > s[2] THEN <<"num", fl + 1>>
             ELSE IF fl % 2 = 0 THEN <<"num", fl>> ELSE <<"num", fl + 1>>

----------------------------------------------------------------------------
(* Constants of the script *)

\* WEIGHTS as first bound at import
WeightTable ==
    [USD |-> R(198, 1000), EUR |-> R(180, 1000), JPY |-> R(90, 1000),
     KRW |-> R(80, 1000),  GBP |-> R(30, 1000),  AUD |-> R(50, 1000)]

tickers ==
    [EURUSD |-> "EURUSD=X", USDJPY |-> "JPY=X", GBPUSD |-> "GBPUSD=X",
     AUDUSD |-> "AUDUSD=X", USDCNY |-> "CNY=X"]

Symbols == {tickers[k] : k \in DOMAIN tickers}

Pairs == {"EURUSD", "USDJPY", "GBPUSD", "AUDUSD"}

\* Python's None, as returned by get_market_data
None == [absent |-> TRUE]

\* the High Volatility Alert threshold 0.0500
AlertThreshold == R(500, 10000)

----------------------------------------------------------------------------
(* What yf.download can hand back.  The feed is outside the repository;    *)
(* the model enumerates its outcomes: the call raises, or it returns a     *)
(* price table of some number of daily rows, whose 'Close' columns may     *)
(* lack a symbol or hold NaN where the feed had no quote.                  *)

\* rows in a complete table
TableRows == 3

\* closes are quoted in 1/10000
Px(n) == R(n, 10000)

BaseClose ==
    [s \in Symbols |->
        CASE s = "EURUSD=X" -> Px(10000)
          [] s = "JPY=X"    -> Px(1500000)
          [] s = "GBPUSD=X" -> Px(12500)
          [] s = "AUDUSD=X" -> Px(6500)
          [] OTHER          -> Px(70000)]

\* a row of closes, the reference pair unchanged
Row(e, j, g, a) ==
    [s \in Symbols |->
        CASE s = "EURUSD=X" -> Px(e)
          [] s = "JPY=X"    -> Px(j)
          [] s = "GBPUSD=X" -> Px(g)
          [] s = "AUDUSD=X" -> Px(a)
          [] OTHER          -> Px(70000)]

\* latest closes the model lets the feed quote: every pair flat, each pair
\* moving alone (EUR -3% and +3%, JPY +1.5%, GBP -0.2%, AUD +0.4%), and
\* several pairs moving together
LastRows ==
    {Row(10000, 1500000, 12500, 6500),
     Row(9700,  1500000, 12500, 6500),
     Row(10300, 1500000, 12500, 6500),
     Row(10000, 1522500, 12500, 6500),
     Row(10000, 1500000, 12475, 6500),
     Row(10000, 1500000, 12500, 6526),
     Row(9700,  1522500, 12500, 6500),
     Row(9700,  1522500, 12500, 6526),
     Row(10300, 1522500, 12475, 6526)}

Restrict(row, cols) == [s \in cols |-> row[s]]

\* a table of n rows over the columns cols, ending in the row last
Table(n, cols, last) ==
    [raises  |-> FALSE,
     columns |-> cols,
     rows    |-> [i \in 1..n |-> IF i = n THEN Restrict(last, cols)
                                 ELSE Restrict(BaseClose, cols)]]

RaisingDownload == [raises |-> TRUE, columns |-> {}, rows |-> <<>>]

\* a symbol the feed had no data for: its column holds NaN in every row
NoDataColumn(n, sym) ==
    [raises  |-> FALSE,
     columns |-> Symbols,
     rows    |-> [i \in 1..n |-> [s \in Symbols |->
                                    IF s = sym THEN NaN ELSE BaseClose[s]]]]

Downloads ==
    {RaisingDownload}
    \cup {Table(n, Symbols, BaseClose) : n \in 0..1}
    \cup {Table(TableRows, Symbols \ {s}, BaseClose) : s \in Symbols}
    \cup {NoDataColumn(TableRows, s) : s \in Symbols}
    \cup {Table(TableRows, Symbols, last) : last \in LastRows}

----------------------------------------------------------------------------
(* Functions of the script *)

\* the body of get_market_data, given what yf.download(...) did
get_market_data(dl) ==
    IF dl.raises THEN None
    ELSE IF Len(dl.rows) < 2 THEN None
    ELSE LET df         == dl.rows
             last_close == df[Len(df)]
             prior      == df[Len(df) - 1]
             changes    == [s \in dl.columns |->
                              FDiv(FSub(last_close[s], prior[s]), prior[s])]
         IN  IF \E p \in Pairs : tickers[p] \notin dl.columns THEN None
             ELSE [p \in Pairs |-> [rate |-> last_close[tickers[p]],
                                    chg  |-> changes[tickers[p]]]]

\* every value get_market_data() can return when it is executed
FetchResults == {get_market_data(dl) : dl \in Downloads}

\* Python truthiness of market_data: None and {} are falsy
Truthy(md) == md # None /\ DOMAIN md # {}

\* mutation: None is answered with NaN instead of 0.0
BasketImpactAbsentNaN(W, pf, md) ==
    IF ~Truthy(md) THEN NaN
    ELSE LET base == FSub(FromInt(1), W.USD)
             i1 == FSub(FromInt(0), FMul(FMul(FMul(md.EURUSD.chg, FDiv(W.EUR, base)), pf), TenThousand))
             i2 == FAdd(i1, FMul(FMul(FMul(md.USDJPY.chg, FDiv(W.JPY, base)), pf), TenThousand))
         IN  FSub(i2, FMul(FMul(FMul(md.GBPUSD.chg, FDiv(W.GBP, base)), pf), TenThousand))

\* mutation: the JPY impact is subtracted like the EUR and GBP ones
BasketImpactJpyInverse(W, pf, md) ==
    IF ~Truthy(md) THEN FromInt(0)
    ELSE LET base == FSub(FromInt(1), W.USD)
             i1 == FSub(FromInt(0), FMul(FMul(FMul(md.EURUSD.chg, FDiv(W.EUR, base)), pf), TenThousand))
             i2 == FSub(i1, FMul(FMul(FMul(md.USDJPY.chg, FDiv(W.JPY, base)), pf), TenThousand))
         IN  FSub(i2, FMul(FMul(FMul(md.GBPUSD.chg, FDiv(W.GBP, base)), pf), TenThousand))

\* mutation: an AUD impact is taken in as well
BasketImpactWithAud(W, pf, md) ==
    IF ~Truthy(md) THEN FromInt(0)
    ELSE LET base == FSub(FromInt(1), W.USD)
             i1 == FSub(FromInt(0), FMul(FMul(FMul(md.EURUSD.chg, FDiv(W.EUR, base)), pf), TenThousand))
             i2 == FAdd(i1, FMul(FMul(FMul(md.USDJPY.chg, FDiv(W.JPY, base)), pf), TenThousand))
             i3 == FSub(i2, FMul(FMul(FMul(md.GBPUSD.chg, FDiv(W.GBP, base)), pf), TenThousand))
         IN  FSub(i3, FMul(FMul(FMul(md.AUDUSD.chg, FDiv(W.AUD, base)), pf), TenThousand))

\* the body of calculate_basket_impact, reading the weights from W
BasketImpact(W, pf, md) ==
    IF ~Truthy(md) THEN FromInt(0)
    ELSE LET base     == FSub(FromInt(1), W.USD)
             eur_move == md.EURUSD.chg
             jpy_move == md.USDJPY.chg
             gbp_move == md.GBPUSD.chg
             i0 == FromInt(0)
             i1 == FSub(i0, FMul(FMul(FMul(eur_move, FDiv(W.EUR, base)), pf), TenThousand))
             i2 == FAdd(i1, FMul(FMul(FMul(jpy_move, FDiv(W.JPY, base)), pf), TenThousand))
             i3 == FSub(i2, FMul(FMul(FMul(gbp_move, FDiv(W.GBP, base)), pf), TenThousand))
         IN  i3

calculate_basket_impact(pf, md) == BasketImpact(WEIGHTS, pf, md)

----------------------------------------------------------------------------
(* The Calculation Engine and the results display, line by line *)

\* mutation: the gap is damped by a half
GapPipsDamped(pc, pf) == FMul(FMul(FSub(pc, pf), TenThousand), R(1, 2))

GapPips(pc, pf) == FMul(FSub(pc, pf), TenThousand)

\* mutation: the CCF is clamped to the slider's range
CcfPipsClamped(ccf) ==
    FromInt(IF ccf < -100 THEN -100 ELSE IF ccf > 100 THEN 100 ELSE ccf)

CcfPips(ccf) == FromInt(ccf)

\* mutation: the basket impact is left out of the total
TotalChangePipsNoBasket(gap, basket, ccf) == FAdd(gap, ccf)

TotalChangePips(gap, basket, ccf) == FAdd(FAdd(gap, basket), ccf)

PredictedFix(pf, total) == FAdd(pf, FDiv(total, TenThousand))

\* mutation: the CCF is added a second time instead of taken out
TheoreticalFixAddsCcf(predicted, ccf) == FAdd(predicted, FDiv(ccf, TenThousand))

\* the expression rendered under "Theoretical Fix (No CCF)"
TheoreticalFix(predicted, ccf) == FSub(predicted, FDiv(ccf, TenThousand))

HighVolatility(predicted, pc) == FGt(FAbs(FSub(predicted, pc)), AlertThreshold)

\* the tiles of "3. Overnight Basket Moves"
BasketMetrics(md) == IF Truthy(md) THEN Pairs ELSE {}

NeutralWarning(md) == ~Truthy(md)

----------------------------------------------------------------------------
(* The widgets *)

\* value= of the two number inputs and of the slider
DefaultPrevClose == R(69850, 10000)
DefaultPrevFix   == R(69820, 10000)
DefaultCcf       == -10

\* min_value= and max_value= of the slider
SliderMin == -100
SliderMax == 100

\* the values the model lets the user enter
PrevCloseValues == {DefaultPrevClose, R(70000, 10000)}
PrevFixValues   == {DefaultPrevFix, R(70000, 10000)}
CcfValues       == {SliderMin, DefaultCcf, SliderMax}

----------------------------------------------------------------------------
(* The state machine *)

vars == <<WEIGHTS, cache, prev_close, prev_fix, ccf_input, market_data,
          feed_error, basket_metrics, neutral_warning, gap_pips, basket_pips,
          ccf_pips, total_change_pips, predicted_fix, theoretical_text,
          prediction_text, chart_data, volatility_alert, earlier>>

EmptyCache == [valid |-> FALSE, value |-> None]

NoEarlier == [set |-> FALSE]

\* the execution now on the page, as a history record
OnPage ==
    [set |-> TRUE,
     prev_close |-> prev_close, prev_fix |-> prev_fix, ccf_input |-> ccf_input,
     market_data |-> market_data,
     gap_pips |-> gap_pips, basket_pips |-> basket_pips,
     predicted_fix |-> predicted_fix, theoretical_text |-> theoretical_text]

\* mutation: the base weight 1 - WEIGHTS['USD'] is stored back into the table
BasketStepRebasing(pf, md) ==
    /\ WEIGHTS' = [WEIGHTS EXCEPT !.USD = FSub(FromInt(1), @)]
    /\ basket_pips' = BasketImpact(WEIGHTS', pf, md)

\* basket_pips = calculate_basket_impact(prev_fix, market_data): the call
\* reads WEIGHTS and assigns nothing outside its frame
BasketStep(pf, md) ==
    /\ basket_pips' = calculate_basket_impact(pf, md)
    /\ WEIGHTS' = WEIGHTS

\* mutation: the alert looks at the theoretical fix
AlertStepOnTheoretical(pc) ==
    volatility_alert' = HighVolatility(TheoreticalFix(predicted_fix', ccf_pips'), pc)

\* the High Volatility Alert of this execution
AlertStep(pc) == volatility_alert' = HighVolatility(predicted_fix', pc)

\* the rest of the script once market_data = md is back from get_market_data
Render(pc, pf, ccf, md) ==
    /\ prev_close' = pc
    /\ prev_fix' = pf
    /\ ccf_input' = ccf
    /\ market_data' = md
    /\ cache' = [valid |-> TRUE, value |-> md]
    /\ feed_error' = (md = None)
    /\ basket_metrics' = BasketMetrics(md)
    /\ neutral_warning' = NeutralWarning(md)
    /\ gap_pips' = GapPips(pc, pf)
    /\ BasketStep(pf, md)
    /\ ccf_pips' = CcfPips(ccf)
    /\ total_change_pips' = TotalChangePips(gap_pips', basket_pips', ccf_pips')
    /\ predicted_fix' = PredictedFix(pf, total_change_pips')
    /\ theoretical_text' = Format4(TheoreticalFix(predicted_fix', ccf_pips'))
    /\ prediction_text' = Format4(predicted_fix')
    /\ chart_data' = <<gap_pips', basket_pips', ccf_pips'>>
    /\ AlertStep(pc)

\* one execution of the script with the widget values pc, pf, ccf:
\* get_market_data() is answered from the cache while the entry is valid
ScriptRun(pc, pf, ccf) ==
    \/ cache.valid /\ Render(pc, pf, ccf, cache.value)
    \/ ~cache.valid /\ \E md \in FetchResults : Render(pc, pf, ccf, md)

\* the first execution: the widgets hold their value= defaults, nothing is cached
Init ==
    /\ WEIGHTS = WeightTable
    /\ earlier = NoEarlier
    /\ prev_close = DefaultPrevClose
    /\ prev_fix = DefaultPrevFix
    /\ ccf_input = DefaultCcf
    /\ market_data \in FetchResults
    /\ cache = [valid |-> TRUE, value |-> market_data]
    /\ feed_error = (market_data = None)
    /\ basket_metrics = BasketMetrics(market_data)
    /\ neutral_warning = NeutralWarning(market_data)
    /\ gap_pips = GapPips(prev_close, prev_fix)
    /\ basket_pips = calculate_basket_impact(prev_fix, market_data)
    /\ ccf_pips = CcfPips(ccf_input)
    /\ total_change_pips = TotalChangePips(gap_pips, basket_pips, ccf_pips)
    /\ predicted_fix = PredictedFix(prev_fix, total_change_pips)
    /\ theoretical_text = Format4(TheoreticalFix(predicted_fix, ccf_pips))
    /\ prediction_text = Format4(predicted_fix)
    /\ chart_data = <<gap_pips, basket_pips, ccf_pips>>
    /\ volatility_alert = HighVolatility(predicted_fix, prev_close)

\* the history variable keeps one execution it chooses to keep, among those
\* made with the default close and CCF
Remember ==
    earlier' \in (IF earlier.set \/ prev_close # DefaultPrevClose \/ ccf_input # DefaultCcf
                  THEN {earlier} ELSE {earlier, OnPage})

ChangePrevClose ==
    \E v \in PrevCloseValues \ {prev_close} :
        ScriptRun(v, prev_fix, ccf_input) /\ Remember

ChangePrevFix ==
    \E v \in PrevFixValues \ {prev_fix} :
        ScriptRun(prev_close, v, ccf_input) /\ Remember

ChangeCcf ==
    \E v \in CcfValues \ {ccf_input} :
        ScriptRun(prev_close, prev_fix, v) /\ Remember

\* a rerun with the widgets untouched
Rerun == ScriptRun(prev_close, prev_fix, ccf_input) /\ Remember

\* ttl=300 runs out
CacheExpire ==
    /\ cache.valid
    /\ cache' = EmptyCache
    /\ UNCHANGED <<WEIGHTS, prev_close, prev_fix, ccf_input, market_data,
                   feed_error, basket_metrics, neutral_warning, gap_pips,
                   basket_pips, ccf_pips, total_change_pips, predicted_fix,
                   theoretical_text, prediction_text, chart_data,
                   volatility_alert, earlier>>

Next ==
    \/ ChangePrevClose
    \/ ChangePrevFix
    \/ ChangeCcf
    \/ Rerun
    \/ CacheExpire

Spec == Init /\ [][Next]_vars

----------------------------------------------------------------------------
(* Properties *)

BasketPairs == {"EURUSD", "USDJPY", "GBPUSD"}

\* md is absent, or a snapshot whose three basket changes are numbers
Priced(md) == ~Truthy(md) \/ \A p \in BasketPairs : ~IsNaN(md[p].chg)

\* md is a snapshot with a number in every rate and chg of the four pairs
Complete(md) ==
    /\ Truthy(md)
    /\ DOMAIN md = Pairs
    /\ \A p \in Pairs : ~IsNaN(md[p].rate) /\ ~IsNaN(md[p].chg)

Zero == FromInt(0)

\* pips as a move of the rate
PipsToRate(x) == FDiv(x, TenThousand)

\* the expression of the "Theoretical Fix (No CCF)" tile, on the page's values
theoretical_fix == TheoreticalFix(predicted_fix, ccf_pips)

\* C1: the three components of the breakdown chart are gap_pips, basket_pips
\* and ccf_pips, and their sum divided by 10000 is predicted_fix - prev_fix,
\* whether the snapshot is present or absent
C1_ComponentsSumToMove ==
    /\ chart_data = <<gap_pips, basket_pips, ccf_pips>>
    /\ Priced(market_data) =>
         FEq(FSub(predicted_fix, prev_fix),
             PipsToRate(FAdd(FAdd(chart_data[1], chart_data[2]), chart_data[3])))

\* a present snapshot with a non-zero basket, a non-zero gap and a non-zero CCF
C1_Witness ==
    /\ Truthy(market_data) /\ Priced(market_data)
    /\ FGt(basket_pips, Zero) /\ FGt(gap_pips, Zero) /\ FGt(Zero, ccf_pips)
    /\ FEq(FSub(predicted_fix, prev_fix),
           PipsToRate(FAdd(FAdd(gap_pips, basket_pips), ccf_pips)))

\* C2: theoretical_fix + ccf_pips/10000 is predicted_fix, theoretical_fix is
\* prev_fix + (gap_pips + basket_pips)/10000, and the text on the page is the
\* same whatever CCF the slider holds
C2_TheoreticalFixExcludesCcf ==
    Priced(market_data) =>
        /\ FEq(FAdd(theoretical_fix, PipsToRate(ccf_pips)), predicted_fix)
        /\ FEq(theoretical_fix,
               FAdd(prev_fix, PipsToRate(FAdd(gap_pips, basket_pips))))
        /\ theoretical_text =
               Format4(FAdd(prev_fix, PipsToRate(FAdd(gap_pips, basket_pips))))
        /\ \A c \in CcfValues :
               Format4(TheoreticalFix(
                   PredictedFix(prev_fix,
                       TotalChangePips(gap_pips, basket_pips, CcfPips(c))),
                   CcfPips(c))) = theoretical_text

\* a non-zero CCF, so that the prediction and the theoretical fix differ
C2_Witness ==
    /\ Truthy(market_data) /\ Priced(market_data)
    /\ FGt(basket_pips, Zero)
    /\ ccf_input = SliderMax
    /\ prediction_text # theoretical_text
    /\ FEq(FAdd(theoretical_fix, PipsToRate(ccf_pips)), predicted_fix)

\* C3: with the snapshot absent the basket impact is 0 for every prev_fix, the
\* execution ends with a numeric prediction prev_fix + (gap_pips + ccf_pips)/10000
\* and the neutral-basket warning is on the page
C3_AbsentSnapshotIsNeutral ==
    /\ \A pf \in PrevFixValues : calculate_basket_impact(pf, None) = Zero
    /\ market_data = None =>
         /\ basket_pips = Zero
         /\ FEq(predicted_fix,
                FAdd(prev_fix, PipsToRate(FAdd(gap_pips, ccf_pips))))
         /\ prediction_text[1] = "num"
         /\ theoretical_text[1] = "num"
         /\ neutral_warning
         /\ basket_metrics = {}

\* an execution after a failed fetch, with a gap and a CCF to predict from
C3_Witness ==
    /\ market_data = None
    /\ feed_error /\ neutral_warning
    /\ prev_fix # prev_close
    /\ ccf_input # 0
    /\ prediction_text[1] = "num"

\* the three contributions as the specification writes them
ContribEUR(W, pf, md) ==
    FNeg(FMul(FMul(FMul(md.EURUSD.chg, FDiv(W.EUR, FSub(FromInt(1), W.USD))), pf), TenThousand))

ContribJPY(W, pf, md) ==
    FMul(FMul(FMul(md.USDJPY.chg, FDiv(W.JPY, FSub(FromInt(1), W.USD))), pf), TenThousand)

ContribGBP(W, pf, md) ==
    FNeg(FMul(FMul(FMul(md.GBPUSD.chg, FDiv(W.GBP, FSub(FromInt(1), W.USD))), pf), TenThousand))

C5_SnapshotAbsentOrComplete ==
    market_data = None \/ Complete(market_data)

\* a snapshot otherwise like md, with the AUDUSD record and the rates replaced
Redrawn(md, aud, r) ==
    [p \in Pairs |-> IF p = "AUDUSD" THEN aud ELSE [rate |-> r, chg |-> md[p].chg]]

AudRecords ==
    {[rate |-> Px(6500), chg |-> Zero],
     [rate |-> Px(6000), chg |-> R(-1, 13)],
     [rate |-> Px(9999), chg |-> R(1, 2)],
     [rate |-> NaN, chg |-> NaN]}

\* weight tables that differ from W in the KRW and AUD entries only
Reweighted(W) ==
    {[W EXCEPT !.KRW = k, !.AUD = a] : k, a \in {Zero, R(1, 2), R(80, 1000)}}

\* C6: another snapshot with the same EURUSD, USDJPY and GBPUSD changes,
\* whatever its AUDUSD record and its rates, gives the same basket impact and
\* so the same prediction and theoretical fix; so does another KRW or AUD weight
C6_AudKrwDoNotEnter ==
    Truthy(market_data) =>
        /\ \A m2 \in FetchResults :
              (/\ Truthy(m2)
               /\ \A p \in BasketPairs : m2[p].chg = market_data[p].chg)
              => /\ calculate_basket_impact(prev_fix, m2) = basket_pips
                 /\ PredictedFix(prev_fix,
                        TotalChangePips(gap_pips,
                            calculate_basket_impact(prev_fix, m2), ccf_pips))
                    = predicted_fix
        /\ \A aud \in AudRecords, r \in {Px(1), Px(12345)} :
              /\ calculate_basket_impact(prev_fix, Redrawn(market_data, aud, r))
                 = basket_pips
              /\ TheoreticalFix(
                     PredictedFix(prev_fix,
                         TotalChangePips(gap_pips,
                             calculate_basket_impact(prev_fix,
                                 Redrawn(market_data, aud, r)), ccf_pips)),
                     ccf_pips) = theoretical_fix
        /\ \A W \in Reweighted(WEIGHTS) :
              BasketImpact(W, prev_fix, market_data) = basket_pips

\* AUDUSD has moved, the basket pairs have too, and the impact is that of the
\* snapshot in which AUDUSD is flat
C6_Witness ==
    /\ Truthy(market_data) /\ Priced(market_data)
    /\ FGt(market_data.AUDUSD.chg, Zero)
    /\ FGt(basket_pips, Zero)
    /\ \E m2 \in FetchResults :
          /\ Truthy(m2)
          /\ m2.AUDUSD.chg = Zero
          /\ \A p \in BasketPairs : m2[p].chg = market_data[p].chg
          /\ calculate_basket_impact(prev_fix, m2) = basket_pips

\* CCF values no slider position gives
CcfBeyondSlider == {-10000, -101, 101, 250}

\* C7: ccf_pips in the breakdown and in total_change_pips is the slider value
\* itself, and the step that takes it over changes no integer, inside or
\* outside [-100, 100]
C7_CcfVerbatim ==
    /\ ccf_pips = FromInt(ccf_input)
    /\ chart_data[3] = FromInt(ccf_input)
    /\ total_change_pips = FAdd(FAdd(gap_pips, basket_pips), FromInt(ccf_input))
    /\ \A c \in CcfValues \cup CcfBeyondSlider :
          /\ CcfPips(c) = FromInt(c)
          /\ TotalChangePips(gap_pips, basket_pips, CcfPips(c))
             = FAdd(FAdd(gap_pips, basket_pips), FromInt(c))

\* the slider at an end of its range
C7_Witness ==
    /\ ccf_input = SliderMin
    /\ ccf_pips = FromInt(-100)
    /\ Priced(market_data)
    /\ FEq(FSub(total_change_pips, FAdd(gap_pips, basket_pips)), FromInt(-100))

\* |x - prev_close| > 0.0500
Beyond(x) == FGt(FAbs(FSub(x, prev_close)), R(500, 10000))

\* C8: the alert is on the page exactly when |predicted_fix - prev_close| >
\* 0.0500 for the prediction that includes the CCF, whatever the distance of
\* the theoretical fix
C8_AlertOnFinalPrediction ==
    /\ volatility_alert <=>
          Beyond(FAdd(prev_fix,
                      PipsToRate(FAdd(FAdd(gap_pips, basket_pips), ccf_pips))))
    /\ (~Beyond(theoretical_fix) /\ Beyond(predicted_fix)) => volatility_alert
    /\ (Beyond(theoretical_fix) /\ ~Beyond(predicted_fix)) => ~volatility_alert

\* the CCF alone carries the prediction over the threshold
C8_Witness ==
    /\ Priced(market_data)
    /\ ~Beyond(theoretical_fix)
    /\ Beyond(predicted_fix)
    /\ volatility_alert

\* the CCF alone brings the prediction back within the threshold
C8_WitnessWithin ==
    /\ Priced(market_data)
    /\ Beyond(theoretical_fix)
    /\ ~Beyond(predicted_fix)
    /\ ~volatility_alert

\* C9: the weight table is the one bound at import, and an execution with the
\* inputs of an earlier one shows the results of the earlier one
C9_Stateless ==
    /\ WEIGHTS = WeightTable
    /\ (/\ earlier.set
        /\ earlier.prev_close = prev_close
        /\ earlier.prev_fix = prev_fix
        /\ earlier.ccf_input = ccf_input
        /\ earlier.market_data = market_data)
       => /\ earlier.gap_pips = gap_pips
          /\ earlier.basket_pips = basket_pips
          /\ earlier.predicted_fix = predicted_fix
          /\ earlier.theoretical_text = theoretical_text

\* the inputs of an earlier execution are on the page again
C9_Witness ==
    /\ earlier.set
    /\ earlier.prev_close = prev_close
    /\ earlier.prev_fix = prev_fix
    /\ earlier.ccf_input = ccf_input
    /\ earlier.market_data = market_data
    /\ Truthy(market_data) /\ Priced(market_data)
    /\ FGt(basket_pips, Zero)
    /\ earlier.predicted_fix = predicted_fix

====
